---- MODULE Spec2Model ----
(***************************************************************************)
(* Model of update_songlist.py: reconciliation of info.tsv against         *)
(* songlist.json, interactive pack assignment with id generation, and the  *)
(* difficulty overlay.                                                     *)
(*                                                                         *)
(* A Python str is a sequence of characters; a character is a one-element  *)
(* TLA+ string, or "U+XXXX" for a character outside ASCII.                 *)
(***************************************************************************)
EXTENDS Integers, Sequences, FiniteSets, TLC

\* ---------------------------------------------------------------- characters

UpperSeq == <<"A", "B", "C", "D", "E", "F", "G", "H", "I", "J", "K", "L", "M",
              "N", "O", "P", "Q", "R", "S", "T", "U", "V", "W", "X", "Y", "Z">>

LowerSeq == <<"a", "b", "c", "d", "e", "f", "g", "h", "i", "j", "k", "l", "m",
              "n", "o", "p", "q", "r", "s", "t", "u", "v", "w", "x", "y", "z">>

DigitSeq == <<"0", "1", "2", "3", "4", "5", "6", "7", "8", "9">>

Range(f) == {f[i] : i \in DOMAIN f}

\* characters str.split() / str.strip() / \s treat as whitespace
Whitespace == {" ", "U+00A0", "U+3000"}

\* the class of the first re.sub of normalize_key
KeyPunct == Whitespace \cup {".", ",", ";", ":", "!", "?", "(", ")", "[", "]",
                             "&", "'", "\"", "U+FF5E", "-"}

\* in the model's alphabet, the characters of 　-〿 and ＀-￯
FullWidth == {"U+3000", "U+FF1A", "U+FF5E", "U+FF01"}

\* \w under re.UNICODE: letters, digits, underscore, CJK ideographs
WordChars == Range(UpperSeq) \cup Range(LowerSeq) \cup Range(DigitSeq)
             \cup {"_", "U+66F2", "U+5305"}

\* str.lower() on one character
LowerChar(c) ==
    IF \E i \in DOMAIN UpperSeq : UpperSeq[i] = c
    THEN LowerSeq[CHOOSE i \in DOMAIN UpperSeq : UpperSeq[i] = c]
    ELSE c

IsDigit(c) == c \in Range(DigitSeq)

DigitVal(c) == (CHOOSE i \in DOMAIN DigitSeq : DigitSeq[i] = c) - 1

\* ------------------------------------------------------------ string helpers

RECURSIVE Filter(_, _)
\* s with every character of the set drop removed
Filter(s, drop) ==
    IF s = <<>> THEN <<>>
    ELSE IF Head(s) \in drop THEN Filter(Tail(s), drop)
         ELSE <<Head(s)>> \o Filter(Tail(s), drop)

RECURSIVE KeepOnly(_, _)
KeepOnly(s, keep) ==
    IF s = <<>> THEN <<>>
    ELSE IF Head(s) \in keep THEN <<Head(s)>> \o KeepOnly(Tail(s), keep)
         ELSE KeepOnly(Tail(s), keep)

Lower(s) == [i \in 1..Len(s) |-> LowerChar(s[i])]

RECURSIVE LStrip(_, _)
LStrip(s, chars) ==
    IF s # <<>> /\ Head(s) \in chars THEN LStrip(Tail(s), chars) ELSE s

RECURSIVE RStrip(_, _)
RStrip(s, chars) ==
    IF s # <<>> /\ s[Len(s)] \in chars
    THEN RStrip(SubSeq(s, 1, Len(s) - 1), chars) ELSE s

\* str.strip() and str.strip(chars)
Strip(s, chars) == RStrip(LStrip(s, chars), chars)

RECURSIVE SplitWs(_, _, _)
\* str.split(): the maximal runs of non-whitespace characters
SplitWs(s, cur, words) ==
    IF s = <<>> THEN (IF cur = <<>> THEN words ELSE Append(words, cur))
    ELSE IF Head(s) \in Whitespace
         THEN SplitWs(Tail(s), <<>>, IF cur = <<>> THEN words ELSE Append(words, cur))
         ELSE SplitWs(Tail(s), Append(cur, Head(s)), words)

RECURSIVE Join(_, _)
Join(words, sep) ==
    IF words = <<>> THEN <<>>
    ELSE IF Len(words) = 1 THEN words[1]
         ELSE words[1] \o sep \o Join(Tail(words), sep)

RECURSIVE SubRuns(_, _, _, _)
\* re.sub(r"[class]+", rep, s): every maximal run of class characters becomes rep
SubRuns(s, class, rep, inRun) ==
    IF s = <<>> THEN <<>>
    ELSE IF Head(s) \in class
         THEN (IF inRun THEN <<>> ELSE rep) \o SubRuns(Tail(s), class, rep, TRUE)
         ELSE <<Head(s)>> \o SubRuns(Tail(s), class, rep, FALSE)

StartsWith(s, p) == Len(p) <= Len(s) /\ SubSeq(s, 1, Len(p)) = p

RECURSIVE Dec(_)
\* f"{n}" for a non-negative int
Dec(n) == IF n < 10 THEN <<DigitSeq[n + 1]>>
          ELSE Dec(n \div 10) \o <<DigitSeq[(n % 10) + 1]>>

RECURSIVE ParseInt(_)
\* int(digits)
ParseInt(ds) == IF ds = <<>> THEN 0
                ELSE ParseInt(SubSeq(ds, 1, Len(ds) - 1)) * 10 + DigitVal(ds[Len(ds)])

\* --------------------------------------------------------------- normalizers

normalize_title(s) ==
    IF s = <<>> THEN <<>>
    ELSE Strip(Join(SplitWs(s, <<>>, <<>>), <<" ">>), Whitespace)

normalize_key(s) ==
    IF s = <<>> THEN <<>>
    ELSE Lower(KeepOnly(Filter(Filter(s, KeyPunct), FullWidth), WordChars))

\* ------------------------------------------------------------- the catalogue
\* A song entry is [title, diff, pack, id, aliases]: the keys 标题, 难度, 曲包,
\* id and 别称 of the JSON object.  diff is <<>> when 难度 is not a dict and
\* <<[ez, hd, in, at]>> when it is; at is <<>> for the "" marker and <<v>>
\* for a number.  Ratings are counted in tenths.  Positions are Python's:
\* data[i] of the source is data[i + 1] here.

None == <<>>

At(data, i) == data[i + 1]

\* list.insert(i, e)
Insert(data, i, e) == SubSeq(data, 1, i) \o <<e>> \o SubSeq(data, i + 1, Len(data))

\* list.index(e): the first position holding a value equal to e
IndexOf(data, e) == (CHOOSE j \in 1..Len(data) :
                        data[j] = e /\ \A k \in 1..(j - 1) : data[k] # e) - 1

InMap(m, k) == k \in DOMAIN m

\* m[k] = v
Put(m, k, v) == [x \in DOMAIN m \cup {k} |-> IF x = k THEN v ELSE m[x]]

RECURSIVE load_aliases(_, _, _, _)
\* lines 74-80: the alias loop of one song, on m = [t |-> title_to_song, k |-> key_to_song]
load_aliases(aliases, i, song, m) ==
    IF aliases = <<>> THEN m
    ELSE LET a  == normalize_title(Head(aliases))
             ak == normalize_key(Head(aliases))
             t1 == IF a # <<>> /\ ~InMap(m.t, a) THEN Put(m.t, a, <<i, song>>) ELSE m.t
             k1 == IF ak # <<>> /\ ~InMap(m.k, ak) THEN Put(m.k, ak, <<i, song>>) ELSE m.k
         IN load_aliases(Tail(aliases), i, song, [t |-> t1, k |-> k1])

RECURSIVE load_songs(_, _, _)
\* lines 67-80: the loop over enumerate(data)
load_songs(data, i, m) ==
    IF i >= Len(data) THEN m
    ELSE LET song  == At(data, i)
             title == normalize_title(song.title)
             key   == normalize_key(song.title)
             t1 == IF title # <<>> THEN Put(m.t, title, <<i, song>>) ELSE m.t
             k1 == IF key # <<>> /\ ~InMap(m.k, key) THEN Put(m.k, key, <<i, song>>) ELSE m.k
         IN load_songs(data, i + 1, load_aliases(song.aliases, i, song, [t |-> t1, k |-> k1]))

RECURSIVE load_packs(_, _)
\* lines 81-87: distinct non-empty packs in first-seen order
load_packs(data, packs) ==
    IF data = <<>> THEN packs
    ELSE LET pack == Head(data).pack
         IN load_packs(Tail(data),
                       IF pack # <<>> /\ pack \notin Range(packs)
                       THEN Append(packs, pack) ELSE packs)

EmptyMap == [x \in {} |-> None]

load_songlist(data) ==
    LET m == load_songs(data, 0, [t |-> EmptyMap, k |-> EmptyMap])
    IN [data |-> data, title_to_song |-> m.t,
        packs_ordered |-> load_packs(data, <<>>), key_to_song |-> m.k]

RECURSIVE prefix_scan(_, _, _)
\* lines 53-56: the first song, from position i on, whose key is a prefix of
\* key or has key as a prefix
prefix_scan(key, data, i) ==
    IF i >= Len(data) THEN None
    ELSE LET song == At(data, i)
             sk   == normalize_key(song.title)
         IN IF StartsWith(sk, key) \/ StartsWith(key, sk)
            THEN <<IndexOf(data, song), song>>
            ELSE prefix_scan(key, data, i + 1)

\* a lookup that consults the key map before the title map
find_song_by_title_key_first(title, title_to_song, data, key_to_song) ==
    LET norm == normalize_title(title)
        key  == normalize_key(title)
    IN IF key # <<>> /\ InMap(key_to_song, key) THEN key_to_song[key]
       ELSE IF norm # <<>> /\ InMap(title_to_song, norm) THEN title_to_song[norm]
       ELSE IF key = <<>> THEN None
       ELSE IF Len(key) >= 4 THEN prefix_scan(key, data, 0)
       ELSE None

find_song_by_title(title, title_to_song, data, key_to_song) ==
    LET norm == normalize_title(title)
        key  == normalize_key(title)
    IN IF norm # <<>> /\ InMap(title_to_song, norm) THEN title_to_song[norm]
       ELSE IF key = <<>> THEN None
       ELSE IF InMap(key_to_song, key) THEN key_to_song[key]
       ELSE IF Len(key) >= 4 THEN prefix_scan(key, data, 0)
       ELSE None

\* ------------------------------------------------------------- id allocation

pack_to_id_prefix(pack_name) ==
    LET s0 == Strip(pack_name, Whitespace)
        s1 == SubRuns(s0, Whitespace \cup {"-"}, <<"_">>, FALSE)
        s2 == Strip(SubRuns(s1, {"_"}, <<"_">>, FALSE), {"_"})
    IN IF s2 # <<>> THEN s2 ELSE <<"P", "a", "c", "k">>

RECURSIVE last_index_scan(_, _, _, _)
last_index_scan(data, pack_name, i, last) ==
    IF i >= Len(data) THEN last
    ELSE last_index_scan(data, pack_name, i + 1,
                         IF At(data, i).pack = pack_name THEN i ELSE last)

\* a scan that stops at the first song of the pack
last_index_of_pack_first(data, pack_name) ==
    IF \E j \in 1..Len(data) : data[j].pack = pack_name
    THEN (CHOOSE j \in 1..Len(data) :
            data[j].pack = pack_name /\ \A k \in 1..(j - 1) : data[k].pack # pack_name) - 1
    ELSE -1

last_index_of_pack(data, pack_name) == last_index_scan(data, pack_name, 0, -1)

\* re.match(r"^(.+)_(\d+)$", sid): None, or <<group 1, int(group 2)>>.  The
\* digits run to the end, so the underscore before them is the last one, and
\* group 1, everything before it, has at least one character.
match_id(sid) ==
    LET us == {j \in 1..Len(sid) : sid[j] = "_"}
    IN IF us = {} THEN None
       ELSE LET k == CHOOSE j \in us : \A x \in us : x <= j
            IN IF k >= 2 /\ k < Len(sid) /\ \A j \in (k + 1)..Len(sid) : IsDigit(sid[j])
               THEN <<SubSeq(sid, 1, k - 1), ParseInt(SubSeq(sid, k + 1, Len(sid)))>>
               ELSE None

RECURSIVE prefix_num_scan(_, _, _, _, _)
\* lines 112-121
prefix_num_scan(data, pack_name, i, prefix, max_num) ==
    IF i >= Len(data) THEN <<prefix, max_num>>
    ELSE LET song == At(data, i)
             m    == match_id(song.id)
         IN IF song.pack # pack_name \/ m = None
            THEN prefix_num_scan(data, pack_name, i + 1, prefix, max_num)
            ELSE IF m[2] > max_num
                 THEN prefix_num_scan(data, pack_name, i + 1, m[1], m[2])
                 ELSE prefix_num_scan(data, pack_name, i + 1, prefix, max_num)

RECURSIVE prefix_num_scan_ge(_, _, _, _, _)
\* the scan with n >= max_num for n > max_num
prefix_num_scan_ge(data, pack_name, i, prefix, max_num) ==
    IF i >= Len(data) THEN <<prefix, max_num>>
    ELSE LET song == At(data, i)
             m    == match_id(song.id)
         IN IF song.pack # pack_name \/ m = None
            THEN prefix_num_scan_ge(data, pack_name, i + 1, prefix, max_num)
            ELSE IF m[2] >= max_num
                 THEN prefix_num_scan_ge(data, pack_name, i + 1, m[1], m[2])
                 ELSE prefix_num_scan_ge(data, pack_name, i + 1, prefix, max_num)

\* the prefix of the last song with the largest number
get_pack_prefix_and_next_num_ge(data, pack_name) ==
    LET r == prefix_num_scan_ge(data, pack_name, 0, pack_to_id_prefix(pack_name), 0)
    IN <<r[1], r[2] + 1>>

\* the next number taken from the size of the pack
get_pack_prefix_and_next_num_count(data, pack_name) ==
    LET r == prefix_num_scan(data, pack_name, 0, pack_to_id_prefix(pack_name), 0)
    IN <<r[1], Cardinality({j \in 1..Len(data) : data[j].pack = pack_name}) + 1>>

get_pack_prefix_and_next_num(data, pack_name) ==
    LET r == prefix_num_scan(data, pack_name, 0, pack_to_id_prefix(pack_name), 0)
    IN <<r[1], r[2] + 1>>

RECURSIVE new_pack_num_scan(_, _, _, _)
\* lines 282-287
new_pack_num_scan(data, pack_name, i, next_num) ==
    IF i >= Len(data) THEN next_num
    ELSE LET song == At(data, i)
             m    == match_id(song.id)
         IN new_pack_num_scan(data, pack_name, i + 1,
                IF song.pack = pack_name /\ m # None /\ m[2] + 1 > next_num
                THEN m[2] + 1 ELSE next_num)

\* lines 279-288: the id given to a song of a pack named at the new-pack prompt
new_pack_id(data, new_entries, pack_name) ==
    LET prefix == pack_to_id_prefix(pack_name)
        existing_in_new == Cardinality({j \in 1..Len(new_entries) :
                                          new_entries[j].pack = pack_name})
    IN prefix \o <<"_">> \o Dec(new_pack_num_scan(data, pack_name, 0, existing_in_new + 1))

new_song_entry(title, pack_name, new_id) ==
    [title |-> title, diff |-> <<[ez |-> 0, hd |-> 0, in |-> 0, at |-> <<0>>]>>,
     pack |-> pack_name, id |-> new_id, aliases |-> <<>>]

\* --------------------------------------------------------- difficulty overlay
\* A line of difficulty.tsv is the sequence of its tab-separated parts.  Part 1
\* is a string; a later part is <<v>> when float() accepts it, with v its
\* value in tenths, and <<>> when float() raises ValueError.  The
\* difficulty map is a Python dict: a sequence of [key, val] with distinct
\* keys, in insertion order; val is [ez, hd, in, at] with at = <<>> when the
\* dict has no "at" key.

RECURSIVE before_period(_)
\* parts[0].split(".", 1)[0]
before_period(s) ==
    IF s = <<>> \/ Head(s) = "." THEN <<>>
    ELSE <<Head(s)>> \o before_period(Tail(s))

DictHas(d, key) == \E j \in 1..Len(d) : d[j].key = key

DictGet(d, key) == d[CHOOSE j \in 1..Len(d) : d[j].key = key].val

\* d[key] = val: a new key goes last, an old key keeps its place
DictSet(d, key, val) ==
    IF DictHas(d, key)
    THEN [j \in 1..Len(d) |-> IF d[j].key = key THEN [key |-> key, val |-> val] ELSE d[j]]
    ELSE Append(d, [key |-> key, val |-> val])

RECURSIVE load_difficulty_lines(_, _)
\* lines 133-156: the loop over the lines of the file
load_difficulty_lines(lines, result) ==
    IF lines = <<>> THEN result
    ELSE LET parts == Head(lines)
             rest  == Tail(lines)
         IN IF Len(parts) < 4 THEN load_difficulty_lines(rest, result)
            ELSE LET key == normalize_key(before_period(parts[1]))
                 IN IF parts[2] = <<>> \/ parts[3] = <<>> \/ parts[4] = <<>>
                    THEN load_difficulty_lines(rest, result)
                    ELSE LET at_val == IF Len(parts) >= 5 THEN parts[5] ELSE <<>>
                             diff == [ez |-> parts[2][1], hd |-> parts[3][1],
                                      in |-> parts[4][1], at |-> at_val]
                         IN IF ~DictHas(result, key)
                               \/ (diff.at # <<>> /\ DictGet(result, key).at = <<>>)
                            THEN load_difficulty_lines(rest, DictSet(result, key, diff))
                            ELSE load_difficulty_lines(rest, result)

load_difficulty_tsv(lines) == load_difficulty_lines(lines, <<>>)

RECURSIVE difficulty_prefix_scan(_, _, _)
\* lines 168-170
difficulty_prefix_scan(key, difficulty_map, j) ==
    IF j > Len(difficulty_map) THEN None
    ELSE IF StartsWith(difficulty_map[j].key, key) \/ StartsWith(key, difficulty_map[j].key)
         THEN <<difficulty_map[j].val>>
         ELSE difficulty_prefix_scan(key, difficulty_map, j + 1)

\* None, or <<the dict of ratings found>>
find_difficulty_for_song(song_title, difficulty_map) ==
    LET key == normalize_key(song_title)
    IN IF key = <<>> THEN None
       ELSE IF DictHas(difficulty_map, key) THEN <<DictGet(difficulty_map, key)>>
       ELSE IF Len(key) >= 4 THEN difficulty_prefix_scan(key, difficulty_map, 1)
       ELSE None

\* lines 181-191: the ratings of a song after the overlay wrote diff into them
overlay_song(song, diff) ==
    [song EXCEPT !.diff = <<[ez |-> diff.ez, hd |-> diff.hd, in |-> diff.in,
                             at |-> IF diff.at # <<>> THEN diff.at ELSE <<>>]>>]

RECURSIVE apply_scan(_, _, _, _)
apply_scan(data, difficulty_map, i, updated) ==
    IF i >= Len(data) THEN [data |-> data, updated |-> updated]
    ELSE LET diff == find_difficulty_for_song(At(data, i).title, difficulty_map)
         IN IF diff = None THEN apply_scan(data, difficulty_map, i + 1, updated)
            ELSE apply_scan([data EXCEPT ![i + 1] = overlay_song(@, diff[1])],
                            difficulty_map, i + 1, updated + 1)

RECURSIVE apply_scan_changed(_, _, _, _)
\* the overlay counting the songs whose ratings it changed
apply_scan_changed(data, difficulty_map, i, updated) ==
    IF i >= Len(data) THEN [data |-> data, updated |-> updated]
    ELSE LET diff == find_difficulty_for_song(At(data, i).title, difficulty_map)
         IN IF diff = None THEN apply_scan_changed(data, difficulty_map, i + 1, updated)
            ELSE apply_scan_changed([data EXCEPT ![i + 1] = overlay_song(@, diff[1])],
                     difficulty_map, i + 1,
                     IF overlay_song(At(data, i), diff[1]) # At(data, i)
                     THEN updated + 1 ELSE updated)

apply_difficulties_changed(data, difficulty_map) ==
    apply_scan_changed(data, difficulty_map, 0, 0)

\* the list after the overlay, and the count returned
apply_difficulties(data, difficulty_map) == apply_scan(data, difficulty_map, 0, 0)

\* ------------------------------------------------------------------ info.tsv

RECURSIVE load_info_tsv(_)
\* a line is the sequence of its tab-separated parts; empty lines are skipped
load_info_tsv(lines) ==
    IF lines = <<>> THEN <<>>
    ELSE LET parts == Head(lines)
         IN IF parts = <<>> \/ parts = <<<<>>>> THEN load_info_tsv(Tail(lines))
            ELSE <<[title |-> Strip(IF Len(parts) > 1 THEN parts[2] ELSE <<>>, Whitespace),
                    row |-> parts]>> \o load_info_tsv(Tail(lines))

RECURSIVE scan_missing(_, _, _, _)
\* lines 243-251: the normalized titles of the rows no song matches
scan_missing(rows, tmap, d, kmap) ==
    IF rows = <<>> THEN <<>>
    ELSE LET title == normalize_title(Head(rows).title)
         IN IF title = <<>> THEN scan_missing(Tail(rows), tmap, d, kmap)
            ELSE IF find_song_by_title(title, tmap, d, kmap) = None
                 THEN <<title>> \o scan_missing(Tail(rows), tmap, d, kmap)
                 ELSE scan_missing(Tail(rows), tmap, d, kmap)

\* line 261
initial_choice_map(packs) ==
    [c \in {Dec(i) : i \in 1..Len(packs)} |->
        packs[CHOOSE i \in 1..Len(packs) : Dec(i) = c]]

\* ------------------------------------------------------------------- inputs

MaxSongs == 2    \* songs in songlist.json at the start of a run
MaxRows == 2    \* lines of info.tsv
MaxLines == 1    \* lines of difficulty.tsv

Str_AB == <<"A", " ", "B">>
Str_A_B == <<"A", "-", "B">>
Str_Q == <<"Q">>

Diff0 == <<[ez |-> 0, hd |-> 0, in |-> 0, at |-> <<0>>]>>
Diff1 == <<[ez |-> 10, hd |-> 20, in |-> 30, at |-> <<>>]>>

\* Two packs whose names give the id prefix A_B, a pack whose ids carry
\* another prefix than its name's, an id without a prefix, titles that share
\* a key, and a title whose key is empty.
SongPool ==
    { [title |-> <<"R", "e", ":", "x">>, diff |-> Diff0, pack |-> Str_AB,
       id |-> <<"A", "_", "B", "_", "1">>, aliases |-> <<>>],
      [title |-> <<"R", "e", "x">>, diff |-> Diff0, pack |-> Str_A_B,
       id |-> <<"A", "_", "B", "_", "2">>, aliases |-> <<>>],
      [title |-> <<"?">>, diff |-> Diff1, pack |-> Str_Q,
       id |-> <<"Q", "_", "3">>, aliases |-> <<>>],
      [title |-> <<"N", "e", "w", " ", "1", " ", "X">>, diff |-> Diff1, pack |-> Str_Q,
       id |-> <<"R", "_", "3">>, aliases |-> << <<"N", "1">> >>],
      [title |-> <<"L", "o">>, diff |-> <<>>, pack |-> Str_Q,
       id |-> <<"_", "5">>, aliases |-> <<>>],
      [title |-> <<"Z">>, diff |-> Diff0, pack |-> Str_Q,
       id |-> <<"S", "_", "0", "0">>, aliases |-> <<>>] }

InfoLinePool ==
    { << <<"k">>, <<"R", "e", "x">> >>,
      << <<"k">>, <<"N", "e", "w", " ", "1">> >>,
      << <<"k">>, <<" ", "N", "e", "w", " ", " ", "1">> >> }

DifficultyLinePool ==
    { << <<"N", "e", "w", "1", ".", "a">>, <<10>>, <<20>>, <<30>> >>,
      << <<"N", "e", "w", "1", ".", "b">>, <<10>>, <<20>>, <<30>>, <<40>> >>,
      << <<"?", ".", "a">>, <<50>>, <<60>>, <<70>>, <<>> >>,
      << <<"R", "e", "x">>, <<10>>, <<>>, <<30>> >> }

\* the difficulty.tsv of a full run: absent, one line that matches by prefix,
\* one line whose title part has an empty key
RunDifficultyFiles ==
    { <<>>,
      << << <<"N", "e", "w", "1", ".", "a">>, <<10>>, <<20>>, <<30>> >> >>,
      << << <<"?", ".", "a">>, <<50>>, <<60>>, <<70>>, <<>> >> >> }

\* what the operator may type at the prompt of line 267
ChoiceInputs == {<<"0">>, <<" ", "1">>, <<"2">>, <<"3">>, <<"x">>, <<>>}

\* what the operator may type at the prompt of line 272
NameInputs == {Str_AB, Str_A_B, <<"Q", " ">>, <<" ">>}

SeqsUpTo(S, n) == UNION {[1..k -> S] : k \in 0..n}

Injective(f) == \A i, j \in DOMAIN f : i # j => f[i] # f[j]

\* the catalogues a run may start from: their ids are pairwise distinct
Catalogues == {d \in SeqsUpTo(SongPool, MaxSongs) : Injective(d)}

\* --------------------------------------------------------------------- state

VARIABLES
    catalogue0,       \* the data of songlist.json when the run started
    songlist_json,    \* the data of songlist.json on disk
    written,          \* whether this run wrote songlist.json
    data,             \* main: data
    title_to_song,    \* main: title_to_song
    key_to_song,      \* main: key_to_song
    packs_ordered,    \* main: packs_ordered
    pack_choice_map,  \* main: pack_choice_map
    info_rows,        \* main: info_rows
    difficulty_map,   \* main: difficulty_map
    missing,          \* main: missing, as the normalized titles
    new_entries,      \* main: new_entries
    rec_i,            \* position of the loop of line 263 in missing
    updated_diff,     \* main: updated_diff
    eof_seen,         \* whether input() has raised EOFError
    pc                \* where main is

vars == <<catalogue0, songlist_json, written, data, title_to_song, key_to_song, packs_ordered,
          pack_choice_map, info_rows, difficulty_map, missing, new_entries, rec_i,
          updated_diff, eof_seen, pc>>

\* main up to line 241: the three files are read
Loaded(catalogue, info_lines, difficulty_lines) ==
    LET l == load_songlist(catalogue)
    IN /\ catalogue0 = catalogue
       /\ songlist_json = catalogue
       /\ written = FALSE
       /\ data = l.data
       /\ title_to_song = l.title_to_song
       /\ key_to_song = l.key_to_song
       /\ packs_ordered = l.packs_ordered
       /\ pack_choice_map = EmptyMap
       /\ info_rows = load_info_tsv(info_lines)
       /\ difficulty_map = load_difficulty_tsv(difficulty_lines)
       /\ missing = <<>>
       /\ new_entries = <<>>
       /\ rec_i = 0
       /\ updated_diff = 0
       /\ eof_seen = FALSE
       /\ pc = "scan"

Init ==
    \E c \in Catalogues, il \in SeqsUpTo(InfoLinePool, MaxRows),
       dl \in RunDifficultyFiles : Loaded(c, il, dl)

\* a run on an empty info.tsv, for any difficulty.tsv
InitOverlay ==
    \E c \in Catalogues, dl \in SeqsUpTo(DifficultyLinePool, MaxLines) :
        Loaded(c, <<>>, dl)

\* the row after the current one, or the end of the loop of line 263
NextRec ==
    /\ rec_i' = rec_i + 1
    /\ pc' = IF rec_i + 1 < Len(missing) THEN "choice" ELSE "overlay"

\* lines 243-261
Scan ==
    /\ pc = "scan"
    /\ missing' = scan_missing(info_rows, title_to_song, data, key_to_song)
    /\ pack_choice_map' = IF missing' # <<>> THEN initial_choice_map(packs_ordered)
                          ELSE pack_choice_map
    /\ pc' = IF missing' # <<>> THEN "choice" ELSE "overlay"
    /\ UNCHANGED <<catalogue0, songlist_json, written, data, title_to_song, key_to_song,
                   packs_ordered, info_rows, difficulty_map, new_entries, rec_i,
                   updated_diff, eof_seen>>

\* lines 266-270: end-of-input at the pack-number prompt leaves the while loop
ChoiceEOF ==
    /\ pc = "choice"
    /\ eof_seen' = TRUE
    /\ NextRec
    /\ UNCHANGED <<catalogue0, songlist_json, written, data, title_to_song, key_to_song,
                   packs_ordered, pack_choice_map, info_rows, difficulty_map, missing,
                   new_entries, updated_diff>>

\* line 271: the operator picks 0
ChoiceNewPack ==
    /\ pc = "choice"
    /\ \E raw \in ChoiceInputs : Strip(raw, Whitespace) = <<"0">>
    /\ pc' = "name"
    /\ UNCHANGED <<catalogue0, songlist_json, written, data, title_to_song, key_to_song,
                   packs_ordered, pack_choice_map, info_rows, difficulty_map, missing,
                   new_entries, rec_i, updated_diff, eof_seen>>

\* lines 298-307: the operator picks a pack of the menu
ChoiceExisting ==
    /\ pc = "choice"
    /\ \E raw \in ChoiceInputs :
         LET choice == Strip(raw, Whitespace)
         IN /\ choice # <<"0">>
            /\ InMap(pack_choice_map, choice)
            /\ LET pack_name == pack_choice_map[choice]
                   pn == get_pack_prefix_and_next_num(data, pack_name)
                   new_id == pn[1] \o <<"_">> \o Dec(pn[2])
                   entry == new_song_entry(missing[rec_i + 1], pack_name, new_id)
                   last_i == last_index_of_pack(data, pack_name)
               IN /\ new_entries' = Append(new_entries, entry)
                  /\ data' = Insert(data, last_i + 1, entry)
    /\ NextRec
    /\ UNCHANGED <<catalogue0, songlist_json, written, title_to_song, key_to_song, packs_ordered,
                   pack_choice_map, info_rows, difficulty_map, missing, updated_diff,
                   eof_seen>>

\* line 308: neither 0 nor a number of the menu
ChoiceInvalid ==
    /\ pc = "choice"
    /\ \E raw \in ChoiceInputs :
         LET choice == Strip(raw, Whitespace)
         IN choice # <<"0">> /\ ~InMap(pack_choice_map, choice)
    /\ UNCHANGED vars

\* line 272: input() is outside the try of line 266, EOFError leaves main
NameEOF ==
    /\ pc = "name"
    /\ eof_seen' = TRUE
    /\ pc' = "crashed"
    /\ UNCHANGED <<catalogue0, songlist_json, written, data, title_to_song, key_to_song,
                   packs_ordered, pack_choice_map, info_rows, difficulty_map, missing,
                   new_entries, rec_i, updated_diff>>

\* lines 273-275: an empty name, back to the prompt of line 267
NameEmpty ==
    /\ pc = "name"
    /\ \E raw \in NameInputs : Strip(raw, Whitespace) = <<>>
    /\ pc' = "choice"
    /\ UNCHANGED <<catalogue0, songlist_json, written, data, title_to_song, key_to_song,
                   packs_ordered, pack_choice_map, info_rows, difficulty_map, missing,
                   new_entries, rec_i, updated_diff, eof_seen>>

\* lines 276-297
NameGiven ==
    /\ pc = "name"
    /\ \E raw \in NameInputs :
         LET pack_name == Strip(raw, Whitespace)
             new_id == new_pack_id(data, new_entries, pack_name)
             entry == new_song_entry(missing[rec_i + 1], pack_name, new_id)
             last_i == last_index_of_pack(data, pack_name)
         IN /\ pack_name # <<>>
            /\ IF pack_name \notin Range(packs_ordered)
               THEN /\ packs_ordered' = Append(packs_ordered, pack_name)
                    /\ pack_choice_map' = Put(pack_choice_map,
                                              Dec(Len(packs_ordered) + 1), pack_name)
               ELSE UNCHANGED <<packs_ordered, pack_choice_map>>
            /\ new_entries' = Append(new_entries, entry)
            /\ data' = IF last_i >= 0 THEN Insert(data, last_i + 1, entry)
                       ELSE Append(data, entry)
    /\ NextRec
    /\ UNCHANGED <<catalogue0, songlist_json, written, title_to_song, key_to_song, info_rows,
                   difficulty_map, missing, updated_diff, eof_seen>>

\* lines 312-315
Overlay ==
    /\ pc = "overlay"
    /\ IF difficulty_map # <<>>
       THEN LET r == apply_difficulties(data, difficulty_map)
            IN data' = r.data /\ updated_diff' = r.updated
       ELSE UNCHANGED <<data, updated_diff>>
    /\ pc' = "write"
    /\ UNCHANGED <<catalogue0, songlist_json, written, title_to_song, key_to_song, packs_ordered,
                   pack_choice_map, info_rows, difficulty_map, missing, new_entries,
                   rec_i, eof_seen>>

\* lines 317-332
Write ==
    /\ pc = "write"
    /\ IF new_entries # <<>> \/ updated_diff > 0
       THEN songlist_json' = data /\ written' = TRUE
       ELSE UNCHANGED <<catalogue0, songlist_json, written>>
    /\ pc' = "done"
    /\ UNCHANGED <<catalogue0, data, title_to_song, key_to_song, packs_ordered,
                   pack_choice_map, info_rows, difficulty_map, missing, new_entries, rec_i, updated_diff,
                   eof_seen>>

Next ==
    \/ Scan
    \/ ChoiceEOF
    \/ ChoiceNewPack
    \/ ChoiceExisting
    \/ ChoiceInvalid
    \/ NameEOF
    \/ NameEmpty
    \/ NameGiven
    \/ Overlay
    \/ Write

Spec == Init /\ [][Next]_vars

NextOverlay == Scan \/ Overlay \/ Write

SpecOverlay == InitOverlay /\ [][NextOverlay]_vars

\* -------------------------------------------------------------------- claims

SetMax(S) == CHOOSE x \in S : \A y \in S : y <= x

SetMin(S) == CHOOSE x \in S : \A y \in S : x <= y

PacksIn(d) == {d[j].pack : j \in 1..Len(d)}

\* the positions of the songs of pack P, and of those whose id has a number
PackIdx(d, P) == {j \in 1..Len(d) : d[j].pack = P}

NumIdx(d, P) == {j \in PackIdx(d, P) : match_id(d[j].id) # None}

NumOf(d, j) == match_id(d[j].id)[2]

PrefixOf(d, j) == match_id(d[j].id)[1]

CreatedThisRun(e) == e \in Range(new_entries)

AfterLoop == pc \in {"overlay", "write", "done"}

\* C1: from a catalogue whose ids are pairwise distinct, no sequence of pack
\* assignments of the interactive loop gives two entries the same id.
C1_IdsDistinct ==
    \A i, j \in 1..Len(data) : i # j => data[i].id # data[j].id

\* C2: for a pack with an entry whose id is <prefix>_<digits>,
\* get_pack_prefix_and_next_num returns the largest number of the pack's ids
\* plus 1, so no number of the pack is reused and no gap is filled; ids without
\* a number are ignored, and a pack without numbered ids gets (packPrefix, 1).
C2_NextNum ==
    \A P \in PacksIn(data) :
        LET r == get_pack_prefix_and_next_num(data, P)
            N == NumIdx(data, P)
        IN IF N = {} THEN r = <<pack_to_id_prefix(P), 1>>
           ELSE /\ \A j \in N : NumOf(data, j) < r[2]
                /\ \E j \in N : NumOf(data, j) + 1 = r[2]

\* a song was added from the menu to a pack whose numbering has a gap
C2_Witness ==
    \E j \in 1..Len(data) :
        /\ CreatedThisRun(data[j])
        /\ match_id(data[j].id) # None
        /\ PrefixOf(data, j) # pack_to_id_prefix(data[j].pack)
        /\ NumOf(data, j) > Cardinality(PackIdx(data, data[j].pack))
        /\ \E k \in PackIdx(data, data[j].pack) : match_id(data[k].id) = None

\* on an insertion, the new entry goes right after the last entry of its pack,
\* or to the end when the pack has none, and nothing else moves
C3_InsertStep ==
    Len(data') = Len(data) + 1 =>
        LET e   == new_entries'[Len(new_entries')]
            idx == PackIdx(data, e.pack)
        IN data' = Insert(data, IF idx # {} THEN SetMax(idx) ELSE Len(data), e)

C3_Contiguous(d) ==
    \A i, j \in 1..Len(d) :
        (i < j /\ d[i].pack = d[j].pack) => \A k \in i..j : d[k].pack = d[i].pack

\* C3: a new entry is inserted immediately after the last entry of its pack,
\* or appended when its pack has no entry; so a catalogue whose packs are
\* contiguous stays so, and the entries it had keep their order.
C3_Insertion ==
    /\ [](C3_Contiguous(catalogue0) => C3_Contiguous(data))
    /\ [][C3_InsertStep]_vars

\* a new entry stands between the last entry of its pack and an older entry
\* of another pack
C3_Witness ==
    \E j \in 1..(Len(data) - 1) :
        /\ j > 1
        /\ CreatedThisRun(data[j])
        /\ data[j - 1].pack = data[j].pack
        /\ ~CreatedThisRun(data[j + 1])
        /\ data[j + 1].pack # data[j].pack

\* C4: end-of-input at either prompt is not fatal: no more row is prompted
\* for, the run goes on to the write step, and every entry resolved before
\* is written.
C4_EOFGraceful ==
    /\ pc # "crashed"
    /\ eof_seen => AfterLoop
    /\ (eof_seen /\ pc = "done") =>
           \A k \in 1..Len(new_entries) :
               \E j \in 1..Len(songlist_json) : songlist_json[j].id = new_entries[k].id

\* C5: the file is written if and only if the run changed the catalogue.
C5_WrittenIffChanged ==
    pc = "done" => (written <=> data # catalogue0)

\* titles looked up in the catalogue
TitleProbes ==
    {r.title : r \in Range(info_rows)}
    \cup { <<"R", "e", "x">>, <<"R", "e", ":", "x">>, <<"r", "e", "x">>, <<"?">>,
           <<"N", "1">>, <<"N", "e", "w", " ", " ", "1", " ", "X">> }

\* C6: a title whose normalizeTitle form is in the title map resolves to the
\* title map's entry, also when the key map holds another entry for its key.
C6_ExactFirst ==
    \A t \in TitleProbes :
        InMap(title_to_song, normalize_title(t)) =>
            find_song_by_title(t, title_to_song, data, key_to_song)
                = title_to_song[normalize_title(t)]

\* the scan looked up a row whose title and key lead to different entries
C6_Witness ==
    /\ pc # "scan"
    /\ \E r \in Range(info_rows) :
           /\ InMap(title_to_song, normalize_title(r.title))
           /\ InMap(key_to_song, normalize_key(r.title))
           /\ key_to_song[normalize_key(r.title)] # title_to_song[normalize_title(r.title)]

\* C7: a second overlay with the same difficulty map changes nothing and
\* returns the count of the first; entries without a match are untouched.
C7_Idempotent ==
    pc \in {"write", "done"} =>
        /\ apply_difficulties(data, difficulty_map)
               = [data |-> data, updated |-> updated_diff]
        /\ \A j \in 1..Len(catalogue0) :
               find_difficulty_for_song(catalogue0[j].title, difficulty_map) = None
                   => data[j] = catalogue0[j]

\* the overlay changed the ratings of an entry and left another alone
C7_Witness ==
    /\ pc = "write"
    /\ updated_diff > 0
    /\ \E j \in 1..Len(data) : data[j] # catalogue0[j]
    /\ \E j \in 1..Len(data) :
           find_difficulty_for_song(data[j].title, difficulty_map) = None

\* C8: the prefix returned for a pack is that of the last entry of the pack,
\* in sequence order, whose id has a number.
C8_LastSeenPrefix ==
    \A P \in PacksIn(data) :
        NumIdx(data, P) # {} =>
            get_pack_prefix_and_next_num(data, P)[1]
                = PrefixOf(data, SetMax(NumIdx(data, P)))

\* C8, amended: the prefix is that of the first entry, in sequence order,
\* that carries the largest number of the pack, when that number is positive;
\* otherwise it is packPrefix of the pack's name.
C8_MaxPrefix ==
    \A P \in PacksIn(data) :
        LET N == NumIdx(data, P)
            r == get_pack_prefix_and_next_num(data, P)
        IN IF N = {} \/ \A j \in N : NumOf(data, j) = 0
           THEN r[1] = pack_to_id_prefix(P)
           ELSE LET top == SetMax({NumOf(data, j) : j \in N})
                IN r[1] = PrefixOf(data, SetMin({j \in N : NumOf(data, j) = top}))

\* a song added from the menu took the prefix of the entry with the largest
\* number, which is neither the last numbered entry's nor the pack name's
C8_Witness ==
    \E j \in 1..Len(data) :
        LET P  == data[j].pack
            N0 == NumIdx(catalogue0, P)
        IN /\ CreatedThisRun(data[j])
           /\ N0 # {}
           /\ match_id(data[j].id) # None
           /\ PrefixOf(data, j) # PrefixOf(catalogue0, SetMax(N0))
           /\ PrefixOf(data, j) # pack_to_id_prefix(P)

\* C9: with a key of 4 characters or more, the prefix scan of
\* find_song_by_title never returns an entry whose title has the empty key,
\* and find_difficulty_for_song never returns the ratings stored under the
\* empty key.
C9_NoEmptyKeyMatch ==
    AfterLoop =>
    /\ \A r \in Range(info_rows) :
           LET t   == normalize_title(r.title)
               key == normalize_key(t)
               res == find_song_by_title(t, title_to_song, catalogue0, key_to_song)
           IN (/\ Len(key) >= 4
               /\ ~InMap(title_to_song, normalize_title(t))
               /\ ~InMap(key_to_song, key)
               /\ res # None) => normalize_key(res[2].title) # <<>>
    /\ \A j \in 1..Len(catalogue0) :
           LET key == normalize_key(catalogue0[j].title)
           IN (/\ Len(key) >= 4
               /\ DictHas(difficulty_map, <<>>)
               /\ ~DictHas(difficulty_map, key))
              => find_difficulty_for_song(catalogue0[j].title, difficulty_map)
                     # <<DictGet(difficulty_map, <<>>)>>

\* C10: after the interactive loop the catalogue holds at most one entry
\* created in this run for a title.
C10_OncePerTitle ==
    AfterLoop =>
        \A i, j \in 1..Len(new_entries) :
            i # j => normalize_title(new_entries[i].title)
                         # normalize_title(new_entries[j].title)

====
